---- MODULE Spec2Model ----
(***************************************************************************)
(* Model of src/src/scraper.py: DataCenterScraper.  Strings are sequences  *)
(* of one-character strings so that startswith, lower, strip, split and    *)
(* substring tests are computed the way the Python code computes them.     *)
(***************************************************************************)
EXTENDS Integers, Sequences, FiniteSets, TLC

\* ------------------------------------------------------------------------
\* Python string primitives used by the scraper
\* ------------------------------------------------------------------------

\* Python's None where a string may stand: a sequence no string equals
None == << "<None>" >>

WhitespaceChars == {" ", "\n", "\t", "\r"}

DigitChars == {"0", "1", "2", "3", "4", "5", "6", "7", "8", "9"}

UpperChars == (* "ABCDEFGHIJKLMNOPQRSTUVWXYZ" *) <<"A","B","C","D","E","F","G","H","I","J","K","L","M","N","O","P","Q","R","S","T","U","V","W","X","Y","Z">>

LowerChars == (* "abcdefghijklmnopqrstuvwxyz" *) <<"a","b","c","d","e","f","g","h","i","j","k","l","m","n","o","p","q","r","s","t","u","v","w","x","y","z">>

\* str.lower() on one character
LowerOf == [c \in {UpperChars[i] : i \in 1..Len(UpperChars)} |->
               LowerChars[CHOOSE i \in 1..Len(UpperChars) : UpperChars[i] = c]]

LowerChar(c) == IF c \in DOMAIN LowerOf THEN LowerOf[c] ELSE c

\* str.lower()
str_lower(s) == [i \in 1..Len(s) |-> LowerChar(s[i])]

\* Python's  sub in s
str_contains(s, sub) ==
    \E i \in 0..(Len(s) - Len(sub)) : \A j \in 1..Len(sub) : s[i + j] = sub[j]

\* str.startswith(prefix)
str_startswith(s, prefix) ==
    /\ Len(prefix) <= Len(s)
    /\ \A j \in 1..Len(prefix) : s[j] = prefix[j]

\* str.strip(): drop leading and trailing whitespace
str_strip(s) ==
    IF \A i \in 1..Len(s) : s[i] \in WhitespaceChars THEN <<>>
    ELSE LET lo == CHOOSE i \in 1..Len(s) :
                      /\ s[i] \notin WhitespaceChars
                      /\ \A j \in 1..(i - 1) : s[j] \in WhitespaceChars
             hi == CHOOSE i \in 1..Len(s) :
                      /\ s[i] \notin WhitespaceChars
                      /\ \A j \in (i + 1)..Len(s) : s[j] \in WhitespaceChars
         IN  SubSeq(s, lo, hi)

\* str.split(sep)[0]: the part of s before the first occurrence of sep
split_first(s, sep) ==
    LET hits == {i \in 0..(Len(s) - Len(sep)) : \A j \in 1..Len(sep) : s[i + j] = sep[j]}
    IN  IF hits = {} THEN s
        ELSE SubSeq(s, 1, CHOOSE i \in hits : \A j \in hits : i <= j)

\* re.search(r'\d+', s) is not None
re_search_digits(s) == \E i \in 1..Len(s) : s[i] \in DigitChars

SentenceEndChars == {".", "!", "?"}

\* index of the last character of the whitespace run that starts at i
WhitespaceRunEnd(s, i) ==
    CHOOSE j \in i..Len(s) :
        /\ \A k \in i..j : s[k] \in WhitespaceChars
        /\ j = Len(s) \/ s[j + 1] \notin WhitespaceChars

\* where the pattern [.!?]\s+ matches: a terminator directly followed by
\* whitespace.  A match consumes the terminator and the whole whitespace run,
\* which holds no terminator, so the matches never overlap.
SplitPoints(text) ==
    {i \in 1..(Len(text) - 1) :
        text[i] \in SentenceEndChars /\ text[i + 1] \in WhitespaceChars}

\* re.split(r'[.!?]\s+', text): the pieces between consecutive matches;
\* start is where the current piece begins.
RECURSIVE re_split_from(_, _, _)
re_split_from(text, points, start) ==
    LET later == {i \in points : i >= start}
    IN  IF later = {} THEN << SubSeq(text, start, Len(text)) >>
        ELSE LET i == CHOOSE m \in later : \A n \in later : m <= n
                 e == WhitespaceRunEnd(text, i + 1)
             IN  << SubSeq(text, start, i - 1) >> \o re_split_from(text, points, e + 1)

re_split(text) == re_split_from(text, SplitPoints(text), 1)

\* ------------------------------------------------------------------------
\* DataCenterScraper.__init__ : configuration
\* ------------------------------------------------------------------------

keywords ==
    << (* "data center" *) <<"d","a","t","a"," ","c","e","n","t","e","r">>,
       (* "datacenter" *) <<"d","a","t","a","c","e","n","t","e","r">>,
       (* "rate increase" *) <<"r","a","t","e"," ","i","n","c","r","e","a","s","e">>,
       (* "rate hike" *) <<"r","a","t","e"," ","h","i","k","e">>,
       (* "grid upgrade" *) <<"g","r","i","d"," ","u","p","g","r","a","d","e">>,
       (* "infrastructure" *) <<"i","n","f","r","a","s","t","r","u","c","t","u","r","e">>,
       (* "water restriction" *) <<"w","a","t","e","r"," ","r","e","s","t","r","i","c","t","i","o","n">>,
       (* "electricity load" *) <<"e","l","e","c","t","r","i","c","i","t","y"," ","l","o","a","d">>,
       (* "capacity" *) <<"c","a","p","a","c","i","t","y">>,
       (* "resilience" *) <<"r","e","s","i","l","i","e","n","c","e">> >>

StrongWords ==
    << (* "must" *) <<"m","u","s","t">>,
       (* "require" *) <<"r","e","q","u","i","r","e">>,
       (* "will" *) <<"w","i","l","l">>,
       (* "shall" *) <<"s","h","a","l","l">>,
       (* "project" *) <<"p","r","o","j","e","c","t">> >>

MinSentenceLen == 20

\* any(kw in sentence.lower() for kw in self.keywords)
HasKeyword(s) ==
    LET lowered == str_lower(s)
    IN  \E k \in 1..Len(keywords) : str_contains(lowered, keywords[k])

\* re.search(r'\d+', sentence) or any(word in sentence.lower() for word in [...])
HasEvidence(s) ==
    \/ re_search_digits(s)
    \/ LET lowered == str_lower(s)
       IN  \E k \in 1..Len(StrongWords) : str_contains(lowered, StrongWords[k])

\* <<1, ..., n>>
Indices(n) == [i \in 1..n |-> i]

\* sentence_kept with the length test off by one
sentence_kept_off_by_one(sentence) ==
    /\ Len(sentence) > MinSentenceLen
    /\ HasKeyword(sentence)
    /\ HasEvidence(sentence)

\* sentence_kept without the test for a number or a strong word
sentence_kept_keyword_only(sentence) ==
    /\ ~(Len(sentence) < MinSentenceLen)
    /\ HasKeyword(sentence)

\* the tests of the  for sentence in sentences  loop on a stripped sentence:
\* not skipped as too short, a keyword, and a number or a strong word
sentence_kept(sentence) ==
    /\ ~(Len(sentence) < MinSentenceLen)
    /\ HasKeyword(sentence)
    /\ HasEvidence(sentence)

\* the positions, in order, of the sentences the loop appends a claim for
kept_sentences(sentences) ==
    SelectSeq(Indices(Len(sentences)),
              LAMBDA i : sentence_kept(str_strip(sentences[i])))

\* claims.append({...})
Claim(sentence, source_url, source_title, now) ==
    [text |-> sentence,
     source_url |-> source_url,
     source_title |-> source_title,
     extracted_at |-> now]

\* the split of a text: its stripped sentences and the positions kept
split_and_filter(text) ==
    LET sentences == re_split(text)
    IN  [sentences |-> [i \in 1..Len(sentences) |-> str_strip(sentences[i])],
         kept |-> kept_sentences(sentences)]

\* ------------------------------------------------------------------------
\* DataCenterScraper.__init__ : origins
\* ------------------------------------------------------------------------

base_urls ==
    [sanjose_legistar |-> (* "https://sanjose.legistar.com" *) <<"h","t","t","p","s",":","/","/","s","a","n","j","o","s","e",".","l","e","g","i","s","t","a","r",".","c","o","m">>,
     santaclara_legistar |-> (* "https://santaclara.legistar.com" *) <<"h","t","t","p","s",":","/","/","s","a","n","t","a","c","l","a","r","a",".","l","e","g","i","s","t","a","r",".","c","o","m">>,
     svp_news |-> (* "https://www.siliconvalleypower.com/home/components/news/news" *) <<"h","t","t","p","s",":","/","/","w","w","w",".","s","i","l","i","c","o","n","v","a","l","l","e","y","p","o","w","e","r",".","c","o","m","/","h","o","m","e","/","c","o","m","p","o","n","e","n","t","s","/","n","e","w","s","/","n","e","w","s">>,
     sjce_news |-> (* "https://sanjosecleanenergy.org" *) <<"h","t","t","p","s",":","/","/","s","a","n","j","o","s","e","c","l","e","a","n","e","n","e","r","g","y",".","o","r","g">>]

\* for city in ['sanjose', 'santaclara']
Cities == << "sanjose", "santaclara" >>

\* for source in ['svp', 'sjce']
NewsSources == << "svp", "sjce" >>

\* search_term='data center'
SearchTerm == (* "data center" *) <<"d","a","t","a"," ","c","e","n","t","e","r">>

\* the URL the register search requests: search_url with params
\* {'Search': 'data center', 'FullText': 1} encoded as the query string
legistar_search_url(city) ==
    base_urls[city \o "_legistar"] \o (* "/Legislation.aspx" *) <<"/","L","e","g","i","s","l","a","t","i","o","n",".","a","s","p","x">>
        \o (* "?Search=data+center&FullText=1" *) <<"?","S","e","a","r","c","h","=","d","a","t","a","+","c","e","n","t","e","r","&","F","u","l","l","T","e","x","t","=","1">>

\* the URL the news adapter requests
news_listing_url(source) == base_urls[source \o "_news"]

\* ------------------------------------------------------------------------
\* The fetched world: what requests.get can return or raise
\* ------------------------------------------------------------------------

\* exceptions of requests.get / raise_for_status; all are subclasses of
\* requests.RequestException
ConnectionError == "ConnectionError"
Timeout == "Timeout"
HTTPError == "HTTPError"
MissingSchema == "MissingSchema"

RequestExceptionClasses == {ConnectionError, Timeout, HTTPError, MissingSchema}

\* transport error, timeout, non-2xx status
FetchFailures == {ConnectionError, Timeout, HTTPError}

\* an except clause that names one subclass only
IsRequestException_connection_only(exc) == exc = ConnectionError

\* except requests.RequestException as e
IsRequestException(exc) == exc \in RequestExceptionClasses

\* requests refuses a URL without an http(s) scheme before sending anything
HasHttpScheme(url) ==
    \/ str_startswith(url, (* "http://" *) <<"h","t","t","p",":","/","/">>)
    \/ str_startswith(url, (* "https://" *) <<"h","t","t","p","s",":","/","/">>)

\* what a call returns or raises
Return(v) == [raised |-> "", value |-> v]
Raise(exc) == [raised |-> exc, value |-> <<>>]

\* ------------------------------------------------------------------------
\* Pages: the parsed markup of the documents the modelled web serves
\* ------------------------------------------------------------------------

\* a <tr class="row">: whether it has a td.title, the text of that cell,
\* the href of the first <a> in the cell (None: no <a> or no href attribute),
\* the text of td.date (None: no such cell)
Row(has_title, title, href, date) ==
    [has_title |-> has_title, title |-> title, href |-> href, date |-> date]

\* an element inside an article block, in document order
Elem(tag, cls, text, href) ==
    [tag |-> tag, cls |-> cls, text |-> text, href |-> href]

\* a text node of a page and the tag that holds it
Node(tag, text) == [tag |-> tag, text |-> text]

EmptyPage == [rows |-> <<>>, articles |-> <<>>, news_items |-> <<>>, nodes |-> <<>>]

ScenarioText ==
    (* "The data center will require 50 MW of new capacity. This sentence has no keyword at all and is long." *) <<"T","h","e"," ","d","a","t","a"," ","c","e","n","t","e","r"," ","w","i","l","l"," ","r","e","q","u","i","r","e"," ","5","0"," ","M","W"," ","o","f"," ","n","e","w"," ","c","a","p","a","c","i","t","y","."," ","T","h","i","s"," ","s","e","n","t","e","n","c","e"," ","h","a","s"," ","n","o"," ","k","e","y","w","o","r","d"," ","a","t"," ","a","l","l"," ","a","n","d"," ","i","s"," ","l","o","n","g",".">>

Pages ==
    [Empty |-> EmptyPage,
     LegA |-> [EmptyPage EXCEPT !.rows =
        << Row(TRUE, (* "  Data Center Permit\n" *) <<" "," ","D","a","t","a"," ","C","e","n","t","e","r"," ","P","e","r","m","i","t","\n">>, (* "/LegislationDetail.aspx?ID=1" *) <<"/","L","e","g","i","s","l","a","t","i","o","n","D","e","t","a","i","l",".","a","s","p","x","?","I","D","=","1">>, (* "1/2/2025 " *) <<"1","/","2","/","2","0","2","5"," ">>),
           Row(FALSE, <<>>, (* "/LegislationDetail.aspx?ID=2" *) <<"/","L","e","g","i","s","l","a","t","i","o","n","D","e","t","a","i","l",".","a","s","p","x","?","I","D","=","2">>, (* "1/3/2025" *) <<"1","/","3","/","2","0","2","5">>),
           Row(TRUE, (* "Grid Upgrade Study" *) <<"G","r","i","d"," ","U","p","g","r","a","d","e"," ","S","t","u","d","y">>, <<>>, None) >>],
     LegB |-> [EmptyPage EXCEPT !.rows =
        << Row(TRUE, (* "Water Plan" *) <<"W","a","t","e","r"," ","P","l","a","n">>, (* "httpdocs/a.html" *) <<"h","t","t","p","d","o","c","s","/","a",".","h","t","m","l">>, (* "2/1/2025" *) <<"2","/","1","/","2","0","2","5">>),
           Row(TRUE, (* "Rate Study" *) <<"R","a","t","e"," ","S","t","u","d","y">>, (* "https://example.org/a" *) <<"h","t","t","p","s",":","/","/","e","x","a","m","p","l","e",".","o","r","g","/","a">>, None),
           Row(TRUE, (* "Minutes" *) <<"M","i","n","u","t","e","s">>, None, None) >>],
     NewsA |-> [EmptyPage EXCEPT !.articles =
        << << Elem("h3", "", (* " Data Center Expansion " *) <<" ","D","a","t","a"," ","C","e","n","t","e","r"," ","E","x","p","a","n","s","i","o","n"," ">>, None),
              Elem("p", "", (* "The data center adds load." *) <<"T","h","e"," ","d","a","t","a"," ","c","e","n","t","e","r"," ","a","d","d","s"," ","l","o","a","d",".">>, None),
              Elem("a", "", (* "Read more" *) <<"R","e","a","d"," ","m","o","r","e">>, (* "/news/1" *) <<"/","n","e","w","s","/","1">>),
              Elem("time", "", (* "2025-01-02" *) <<"2","0","2","5","-","0","1","-","0","2">>, None) >>,
           << Elem("a", "", (* "Read more" *) <<"R","e","a","d"," ","m","o","r","e">>, (* "https://example.org/a" *) <<"h","t","t","p","s",":","/","/","e","x","a","m","p","l","e",".","o","r","g","/","a">>),
              Elem("h3", "", (* "Capacity Report" *) <<"C","a","p","a","c","i","t","y"," ","R","e","p","o","r","t">>, None),
              Elem("span", "date", (* "Jan 3" *) <<"J","a","n"," ","3">>, None) >>,
           << Elem("p", "", (* "Infrastructure notes" *) <<"I","n","f","r","a","s","t","r","u","c","t","u","r","e"," ","n","o","t","e","s">>, None) >>,
           << Elem("h2", "", (* "Community Picnic" *) <<"C","o","m","m","u","n","i","t","y"," ","P","i","c","n","i","c">>, None),
              Elem("p", "", (* "Food and games." *) <<"F","o","o","d"," ","a","n","d"," ","g","a","m","e","s",".">>, None) >> >>],
     NewsB |-> [EmptyPage EXCEPT !.news_items =
        << << Elem("h2", "", (* "RESILIENCE HUB OPENS" *) <<"R","E","S","I","L","I","E","N","C","E"," ","H","U","B"," ","O","P","E","N","S">>, None),
              Elem("a", "", (* "More" *) <<"M","o","r","e">>, <<>>) >> >>],
     PageScenario |-> [EmptyPage EXCEPT !.nodes =
        << Node("p", ScenarioText) >>],
     PageEdge |-> [EmptyPage EXCEPT !.nodes =
        << Node("p", (* "  Capacity is 9 MW now! Capacity is 9 MW no?" *) <<" "," ","C","a","p","a","c","i","t","y"," ","i","s"," ","9"," ","M","W"," ","n","o","w","!"," ","C","a","p","a","c","i","t","y"," ","i","s"," ","9"," ","M","W"," ","n","o","?">>),
           Node("script", (* "var capacity = 100;" *) <<"v","a","r"," ","c","a","p","a","c","i","t","y"," ","="," ","1","0","0",";">>),
           Node("p", (* "GRID UPGRADE SHALL PROCEED QUICKLY.  " *) <<"G","R","I","D"," ","U","P","G","R","A","D","E"," ","S","H","A","L","L"," ","P","R","O","C","E","E","D"," ","Q","U","I","C","K","L","Y","."," "," ">>),
           Node("style", (* "p { margin: 0 }" *) <<"p"," ","{"," ","m","a","r","g","i","n",":"," ","0"," ","}">>),
           Node("p", (* " The resilience plan was adopted smoothly. The council will vote on 3.5 acres today. Rate hike of 4 percent is projected." *) <<" ","T","h","e"," ","r","e","s","i","l","i","e","n","c","e"," ","p","l","a","n"," ","w","a","s"," ","a","d","o","p","t","e","d"," ","s","m","o","o","t","h","l","y","."," ","T","h","e"," ","c","o","u","n","c","i","l"," ","w","i","l","l"," ","v","o","t","e"," ","o","n"," ","3",".","5"," ","a","c","r","e","s"," ","t","o","d","a","y","."," ","R","a","t","e"," ","h","i","k","e"," ","o","f"," ","4"," ","p","e","r","c","e","n","t"," ","i","s"," ","p","r","o","j","e","c","t","e","d",".">>) >>],
     PageBlank |-> [EmptyPage EXCEPT !.nodes =
        << Node("script", (* "var x = 1;" *) <<"v","a","r"," ","x"," ","="," ","1",";">>),
           Node("p", (* "  \n " *) <<" "," ","\n"," ">>) >>]]

\* the pages the modelled web may serve: at a register search URL, at a news
\* listing URL, at a document of a register, at any other URL
LegistarPages == {"LegA", "LegB"}
NewsPages == {"NewsA", "NewsB"}
RegisterDocPages == {"PageEdge", "PageBlank"}
ArticlePages == {"PageScenario", "PageBlank"}

\* ------------------------------------------------------------------------
\* search_legistar_legislation
\* ------------------------------------------------------------------------

\* url = link['href'] if link and link.get('href') else None
href_or_none(href) == IF href = None \/ href = <<>> THEN None ELSE href

\* if url and not url.startswith('http'): url = base + url
resolve_url(url, base) ==
    IF url # None /\ ~str_startswith(url, (* "http" *) <<"h","t","t","p">>) THEN base \o url ELSE url

\* date_cell.get_text(strip=True) if date_cell else 'N/A'
date_or_na(date) == IF date = None THEN (* "N/A" *) <<"N","/","A">> ELSE str_strip(date)

\* rows the loop does not  continue  past: those with a td.title
legistar_kept_rows(rows) ==
    SelectSeq(Indices(Len(rows)), LAMBDA i : rows[i].has_title)

\* results.append({...}) for one row
legistar_record(city, search_term, row) ==
    [type |-> "legistar_legislation",
     city |-> city,
     title |-> str_strip(row.title),
     url |-> resolve_url(href_or_none(row.href), base_urls[city \o "_legistar"]),
     date |-> date_or_na(row.date),
     search_term |-> search_term]

\* search_legistar_legislation without its  except requests.RequestException
search_legistar_legislation_no_except(city, search_term, fr) ==
    IF fr.exc # "" THEN Raise(fr.exc)
    ELSE LET rows == Pages[fr.page].rows
             kept == SelectSeq(Indices(Len(rows)), LAMBDA i : rows[i].has_title)
         IN  Return([k \in 1..Len(kept) |->
                       [type |-> "legistar_legislation",
                        city |-> city,
                        title |-> str_strip(rows[kept[k]].title),
                        url |-> rows[kept[k]].href,
                        date |-> rows[kept[k]].date,
                        search_term |-> search_term]])

\* fr is what requests.get + raise_for_status gave: [exc, page]
search_legistar_legislation(city, search_term, fr) ==
    IF (city \o "_legistar") \notin DOMAIN base_urls THEN Return(<<>>)
    ELSE IF fr.exc # ""
         THEN IF IsRequestException(fr.exc) THEN Return(<<>>) ELSE Raise(fr.exc)
         ELSE LET rows == Pages[fr.page].rows
                  kept == legistar_kept_rows(rows)
              IN  Return([k \in 1..Len(kept) |->
                            legistar_record(city, search_term, rows[kept[k]])])

\* ------------------------------------------------------------------------
\* search_news_sources
\* ------------------------------------------------------------------------

\* Tag.find(names): the first element of the block, in document order, whose
\* tag is one of names; 0 when there is none
find_tag(block, names) ==
    LET hits == {i \in 1..Len(block) : block[i].tag \in names}
    IN  IF hits = {} THEN 0 ELSE CHOOSE i \in hits : \A j \in hits : i <= j

\* Tag.find(class_=cls)
find_class(block, cls) ==
    LET hits == {i \in 1..Len(block) : block[i].cls = cls}
    IN  IF hits = {} THEN 0 ELSE CHOOSE i \in hits : \A j \in hits : i <= j

\* article.get_text(): the text of the block's elements, concatenated
RECURSIVE block_text_from(_, _)
block_text_from(block, i) ==
    IF i > Len(block) THEN <<>> ELSE block[i].text \o block_text_from(block, i + 1)

block_text(block) == block_text_from(block, 1)

\* title_elem = article.find(['h3', 'h2', 'a'])
title_elem(block) == find_tag(block, {"h3", "h2", "a"})

\* news_kept_blocks without the keyword test
news_kept_blocks_no_filter(blocks) ==
    SelectSeq(Indices(Len(blocks)), LAMBDA i : title_elem(blocks[i]) # 0)

\* blocks the loop does not  continue  past: a title element and a keyword
news_kept_blocks(blocks) ==
    SelectSeq(Indices(Len(blocks)),
              LAMBDA i : /\ title_elem(blocks[i]) # 0
                         /\ HasKeyword(block_text(blocks[i])))

\* results.append({...}) for one block
news_record(source, block) ==
    LET link == find_tag(block, {"a"})
        time == find_tag(block, {"time"})
        date_elem == IF time # 0 THEN time ELSE find_class(block, "date")
    IN  [type |-> "news",
         source |-> source,
         title |-> str_strip(block[title_elem(block)].text),
         url |-> resolve_url(IF link = 0 THEN None ELSE href_or_none(block[link].href),
                             split_first(base_urls[source \o "_news"], (* "/home" *) <<"/","h","o","m","e">>)),
         date |-> IF date_elem = 0 THEN (* "N/A" *) <<"N","/","A">> ELSE str_strip(block[date_elem].text)]

\* soup.find_all('article') or soup.find_all('div', class_='news-item')
news_blocks(page) ==
    IF page.articles # <<>> THEN page.articles ELSE page.news_items

\* the blocks the loop keeps in each page of the modelled web, computed once
PageNewsKept == [p \in DOMAIN Pages |-> news_kept_blocks(news_blocks(Pages[p]))]

search_news_sources(source, fr) ==
    IF source \notin {"svp", "sjce"} THEN Return(<<>>)
    ELSE IF fr.exc # ""
         THEN IF IsRequestException(fr.exc) THEN Return(<<>>) ELSE Raise(fr.exc)
         ELSE LET blocks == news_blocks(Pages[fr.page])
                  kept == PageNewsKept[fr.page]
              IN  Return([k \in 1..Len(kept) |-> news_record(source, blocks[kept[k]])])

\* ------------------------------------------------------------------------
\* extract_text_from_url
\* ------------------------------------------------------------------------

\* newline.join(pieces)
RECURSIVE join_lines(_, _)
join_lines(pieces, n) ==
    IF n = 0 THEN <<>>
    ELSE IF n = 1 THEN pieces[1]
    ELSE join_lines(pieces, n - 1) \o << "\n" >> \o pieces[n]

\* soup.get_text(separator='\n', strip=True) after script and style are
\* decomposed: the stripped, non-empty strings joined by newlines
get_text(nodes) ==
    LET content == SelectSeq(nodes, LAMBDA n : n.tag \notin {"script", "style"})
        stripped == [i \in 1..Len(content) |-> str_strip(content[i].text)]
        pieces == SelectSeq(stripped, LAMBDA t : t # <<>>)
    IN  join_lines(pieces, Len(pieces))

\* the text of each page of the modelled web, computed once
PageText == [p \in DOMAIN Pages |-> get_text(Pages[p].nodes)]

\* the split of each of these texts, computed once
PageSplit == [t \in {PageText[p] : p \in DOMAIN Pages} |-> split_and_filter(t)]

extract_text_from_url(fr) ==
    IF fr.exc # ""
    THEN IF IsRequestException(fr.exc) THEN Return(None) ELSE Raise(fr.exc)
    ELSE LET text == PageText[fr.page]
         IN  Return(IF text # <<>> THEN text ELSE None)

\* ------------------------------------------------------------------------
\* extract_claims_from_text
\* ------------------------------------------------------------------------

\* the sentences of the text and which of them the loop keeps
sentences_of(text) ==
    IF text \in DOMAIN PageSplit THEN PageSplit[text] ELSE split_and_filter(text)

extract_claims_from_text(text, source_url, source_title, now) ==
    LET split == sentences_of(text)
    IN  [k \in 1..Len(split.kept) |->
            Claim(split.sentences[split.kept[k]], source_url, source_title, now)]

\* ------------------------------------------------------------------------
\* run_full_scrape as a state machine
\* ------------------------------------------------------------------------

\* runs of run_full_scrape on the one scraper object
MaxRuns == 2

VARIABLES
    pc,           \* where run_full_scrape stands: idle, legistar, news, extract, done, raised
    run,          \* number of the current run
    idx,          \* position of the current for loop
    all_sources,  \* the list all_sources
    all_claims,   \* the list all_claims
    report,       \* the dict the current run returned
    prev_report,  \* the dict the run before it returned
    web,          \* the response each URL fetched so far has: a page or "failure"
    pool,         \* the pages the web of this behaviour can serve
    fetches,      \* history: the URLs requested in this run, in order
    src_from,     \* history: for each source, << origin number, position in the listing >>
    claim_from,   \* history: for each claim, << position in all_sources, sentence number >>
    last_call,    \* history: the latest extract_claims_from_text call and its result
    clock         \* datetime.now()

vars == << pc, run, idx, all_sources, all_claims, report, prev_report, web, pool,
           fetches, src_from, claim_from, last_call, clock >>

NoReport ==
    [sources |-> <<>>, claims |-> <<>>, scraped_at |-> 0,
     total_sources |-> 0, total_claims |-> 0]

LegistarSearchUrls == {legistar_search_url(Cities[c]) : c \in 1..Len(Cities)}
NewsListingUrls == {news_listing_url(NewsSources[n]) : n \in 1..Len(NewsSources)}

\* the pages a URL may turn out to serve
PagesAt(url) ==
    IF url \in LegistarSearchUrls THEN LegistarPages
    ELSE IF url \in NewsListingUrls THEN NewsPages
    ELSE IF \E c \in 1..Len(Cities) :
               str_startswith(url, base_urls[Cities[c] \o "_legistar"])
         THEN RegisterDocPages
    ELSE ArticlePages

\* requests.get(url, ...) followed by raise_for_status(): an exception or a
\* page.  A URL keeps the response it gave first (a page, or failing); the
\* kind of failure is drawn at each attempt.
FetchResults(url) ==
    IF ~HasHttpScheme(url) THEN {[exc |-> MissingSchema, page |-> ""]}
    ELSE LET served == IF url \in DOMAIN web THEN {web[url]}
                       ELSE {"failure"} \cup (PagesAt(url) \cap pool)
         IN  {[exc |-> e, page |-> ""] : e \in {f \in FetchFailures : "failure" \in served}}
             \cup {[exc |-> "", page |-> p] : p \in served \ {"failure"}}

Remember(url, fr) ==
    IF ~HasHttpScheme(url) THEN web
    ELSE web @@ (url :> (IF fr.exc = "" THEN fr.page ELSE "failure"))

\* the new items put in front
extend_in_front(list, items) == items \o list

\* list.extend
extend(list, items) == list \o items

\* a test that lets every value through
truthy_anything(v) == TRUE

\* Python truth of an optional string: neither None nor ''
truthy(v) == v # None /\ v # <<>>

AllPages == LegistarPages \cup NewsPages \cup RegisterDocPages \cup ArticlePages

\* a smaller web: one register listing, one news listing, two documents
FewPages == {"LegB", "NewsA", "PageScenario", "PageBlank"}

\* the state after DataCenterScraper() in a web that serves the pages of p
InitWith(p) ==
    /\ pool = p
    /\ pc = "idle"
    /\ run = 0
    /\ idx = 0
    /\ all_sources = <<>>
    /\ all_claims = <<>>
    /\ report = NoReport
    /\ prev_report = NoReport
    /\ web = <<>>
    /\ fetches = <<>>
    /\ src_from = <<>>
    /\ claim_from = <<>>
    /\ last_call = <<>>
    /\ clock = 0

Init == InitWith(AllPages)

\* Begin with the list of sources kept on the object between runs
Begin_sources_kept ==
    /\ pc \in {"idle", "done"}
    /\ run < MaxRuns
    /\ pc' = "legistar"
    /\ run' = run + 1
    /\ idx' = 1
    /\ all_claims' = <<>>
    /\ prev_report' = report
    /\ fetches' = <<>>
    /\ claim_from' = <<>>
    /\ last_call' = <<>>
    /\ clock' = clock + 1
    /\ UNCHANGED << all_sources, src_from, report, web, pool >>

\* a call of run_full_scrape starts: all_sources = []
Begin ==
    /\ pc \in {"idle", "done"}
    /\ run < MaxRuns
    /\ pc' = "legistar"
    /\ run' = run + 1
    /\ idx' = 1
    /\ all_sources' = <<>>
    /\ all_claims' = <<>>
    /\ prev_report' = report
    /\ fetches' = <<>>
    /\ src_from' = <<>>
    /\ claim_from' = <<>>
    /\ last_call' = <<>>
    /\ clock' = clock + 1
    /\ UNCHANGED << report, web, pool >>

\* an exception leaves run_full_scrape
Escapes ==
    /\ pc' = "raised"
    /\ UNCHANGED << pool, run, idx, all_sources, all_claims, report, prev_report,
                    src_from, claim_from, last_call >>

\* one iteration of  for city in ['sanjose', 'santaclara']
SearchLegistar ==
    /\ pc = "legistar"
    /\ LET city == Cities[idx]
           url == legistar_search_url(city)
       IN  \E fr \in FetchResults(url) :
             LET out == search_legistar_legislation(city, SearchTerm, fr)
                 kept == IF fr.exc = "" THEN legistar_kept_rows(Pages[fr.page].rows)
                         ELSE <<>>
             IN  /\ web' = Remember(url, fr)
                 /\ fetches' = Append(fetches, url)
                 /\ clock' = clock + 1
                 /\ IF out.raised # "" THEN Escapes
                    ELSE /\ all_sources' = extend(all_sources, out.value)
                         /\ src_from' = src_from \o [k \in 1..Len(kept) |-> << idx, kept[k] >>]
                         /\ IF idx < Len(Cities)
                            THEN pc' = pc /\ idx' = idx + 1
                            ELSE pc' = "news" /\ idx' = 1
                         /\ UNCHANGED << pool, run, all_claims, report, prev_report,
                                         claim_from, last_call >>

\* one iteration of  for source in ['svp', 'sjce'];  after the last one
\* all_claims = [] and the loop over all_sources starts
SearchNews ==
    /\ pc = "news"
    /\ LET source == NewsSources[idx]
           url == news_listing_url(source)
       IN  \E fr \in FetchResults(url) :
             LET out == search_news_sources(source, fr)
                 kept == IF fr.exc = "" THEN PageNewsKept[fr.page]
                         ELSE <<>>
             IN  /\ web' = Remember(url, fr)
                 /\ fetches' = Append(fetches, url)
                 /\ clock' = clock + 1
                 /\ IF out.raised # "" THEN Escapes
                    ELSE /\ all_sources' = extend(all_sources, out.value)
                         /\ src_from' = src_from \o
                               [k \in 1..Len(kept) |-> << Len(Cities) + idx, kept[k] >>]
                         /\ IF idx < Len(NewsSources)
                            THEN pc' = pc /\ idx' = idx + 1
                            ELSE pc' = "extract" /\ idx' = 1
                         /\ UNCHANGED << pool, run, all_claims, report, prev_report,
                                         claim_from, last_call >>

\* one iteration of  for source in all_sources
ExtractSource ==
    /\ pc = "extract"
    /\ idx <= Len(all_sources)
    /\ clock' = clock + 1
    /\ LET source == all_sources[idx]
       IN  IF ~truthy(source.url)
           THEN /\ idx' = idx + 1
                /\ UNCHANGED << pc, run, all_sources, all_claims, report, prev_report,
                                web, pool, fetches, src_from, claim_from, last_call >>
           ELSE \E fr \in FetchResults(source.url) :
                  LET out == extract_text_from_url(fr)
                      text == out.value
                      claims == extract_claims_from_text(text, source.url, source.title, clock)
                      kept == sentences_of(text).kept
                  IN  /\ web' = Remember(source.url, fr)
                      /\ fetches' = Append(fetches, source.url)
                      /\ IF out.raised # "" THEN Escapes
                         ELSE /\ idx' = idx + 1
                              /\ IF truthy(text)
                                 THEN /\ all_claims' = extend(all_claims, claims)
                                      /\ claim_from' = claim_from \o
                                            [k \in 1..Len(kept) |-> << idx, kept[k] >>]
                                      /\ last_call' = << [text |-> text,
                                                          source_url |-> source.url,
                                                          source_title |-> source.title,
                                                          result |-> claims] >>
                                 ELSE UNCHANGED << all_claims, claim_from, last_call >>
                              /\ UNCHANGED << pc, pool, run, all_sources, report,
                                              prev_report, src_from >>

\* return {...}
Finish ==
    /\ pc = "extract"
    /\ idx > Len(all_sources)
    /\ pc' = "done"
    /\ report' = [sources |-> all_sources,
                  claims |-> all_claims,
                  scraped_at |-> clock,
                  total_sources |-> Len(all_sources),
                  total_claims |-> Len(all_claims)]
    /\ clock' = clock + 1
    /\ UNCHANGED << run, idx, all_sources, all_claims, prev_report, web, pool,
                    fetches, src_from, claim_from, last_call >>

Next == Begin \/ SearchLegistar \/ SearchNews \/ ExtractSource \/ Finish

Spec == Init /\ [][Next]_vars

\* the interpreter keeps executing the synchronous run: a step that can be
\* taken is taken
LiveSpec == InitWith(FewPages) /\ [][Next]_vars /\ WF_vars(Next)

\* ------------------------------------------------------------------------
\* Properties
\* ------------------------------------------------------------------------

\* the k-th smallest member of a set of numbers
Kth(S, k) == CHOOSE i \in S : Cardinality({j \in S : j < i}) = k - 1

\* C1: extract_claims_from_text returns exactly one claim per segment of the
\* text (split at '.', '!' or '?' followed by whitespace, then trimmed) that
\* is at least 20 long, has a keyword in its lowercased form and has a digit
\* or one of must/require/will/shall/project; no other claim; the claims are
\* in segment order and carry the given source_url and source_title.
ClaimsAreTheQualifyingSegments ==
    \A c \in {last_call[n] : n \in 1..Len(last_call)} :
        LET pieces == re_split(c.text)
            segs == [i \in 1..Len(pieces) |-> str_strip(pieces[i])]
            Q == {i \in 1..Len(segs) :
                    /\ Len(segs[i]) >= 20
                    /\ HasKeyword(segs[i])
                    /\ HasEvidence(segs[i])}
        IN  /\ Len(c.result) = Cardinality(Q)
            /\ \A k \in 1..Len(c.result) :
                  /\ c.result[k].text = segs[Kth(Q, k)]
                  /\ c.result[k].source_url = c.source_url
                  /\ c.result[k].source_title = c.source_title

\* a call that kept some segments, one of them exactly 20 long, and dropped others
ClaimsWitness ==
    /\ last_call # <<>>
    /\ Len(last_call[1].result) = 3
    /\ Len(re_split(last_call[1].text)) = 6
    /\ \E k \in 1..3 : Len(last_call[1].result[k].text) = 20

\* C2: in every state of a run, and in the returned report, every claim's
\* text has a keyword (case-insensitive) and a digit or one of
\* must/require/will/shall/project (case-insensitive).
EveryClaimHasKeywordAndEvidence ==
    \A list \in {all_claims, report.claims} :
        \A k \in 1..Len(list) :
            LET lowered == str_lower(list[k].text)
            IN  /\ \E w \in 1..Len(keywords) : str_contains(lowered, keywords[w])
                /\ \/ \E i \in 1..Len(list[k].text) : list[k].text[i] \in DigitChars
                   \/ \E w \in 1..Len(StrongWords) : str_contains(lowered, StrongWords[w])

\* a report with claims of two sources, reached through a page that also
\* holds a sentence with a keyword and no evidence
EvidenceWitness ==
    /\ pc = "done"
    /\ Len(report.claims) >= 4
    /\ \E u \in DOMAIN web : web[u] = "PageEdge"

\* C3: whatever each fetch does, a started run reaches its return; no
\* exception leaves run_full_scrape.
RunAlwaysCompletes ==
    [](pc \in {"legistar", "news", "extract"} => <>(pc = "done"))

\* a run that returned although a listing fetch and a document fetch failed
CompletesWitness ==
    /\ pc = "done"
    /\ web[legistar_search_url("sanjose")] = "failure"
    /\ \E k \in 1..Len(report.sources) :
          /\ HasHttpScheme(report.sources[k].url)
          /\ web[report.sources[k].url] = "failure"

\* the listing an origin's URL gave, a failure read as an empty listing
ListingOrEmpty(url) == [exc |-> "", page |-> IF web[url] = "failure" THEN "Empty" ELSE web[url]]

\* C4: an origin whose listing fetch fails contributes nothing, the run
\* goes on, and all_sources is what it would be had that origin answered
\* with an empty listing.
FailedOriginIsAnEmptyListing ==
    /\ pc # "raised"
    /\ pc \in {"extract", "done"} =>
          all_sources =
              search_legistar_legislation("sanjose", SearchTerm,
                    ListingOrEmpty(legistar_search_url("sanjose"))).value
              \o search_legistar_legislation("santaclara", SearchTerm,
                    ListingOrEmpty(legistar_search_url("santaclara"))).value
              \o search_news_sources("svp", ListingOrEmpty(news_listing_url("svp"))).value
              \o search_news_sources("sjce", ListingOrEmpty(news_listing_url("sjce"))).value

\* the first register failed, the second register and a news source gave records
FailedOriginWitness ==
    /\ pc = "done"
    /\ web[legistar_search_url("sanjose")] = "failure"
    /\ \E k \in 1..Len(report.sources) : report.sources[k].type = "legistar_legislation"
    /\ \E k \in 1..Len(report.sources) : report.sources[k].type = "news"

\* strictly increasing pairs, first component first
PairsIncrease(pairs) ==
    \A a, b \in 1..Len(pairs) :
        a < b => \/ pairs[a][1] < pairs[b][1]
                 \/ pairs[a][1] = pairs[b][1] /\ pairs[a][2] < pairs[b][2]

\* the number of the origin a record names: sanjose, santaclara, svp, sjce
OriginOf(rec) ==
    IF rec.type = "legistar_legislation"
    THEN CHOOSE c \in 1..Len(Cities) : Cities[c] = rec.city
    ELSE Len(Cities) + CHOOSE n \in 1..Len(NewsSources) : NewsSources[n] = rec.source

\* the title the listing shows at the place src_from names for record k
ListedTitle(k) ==
    LET rec == report.sources[k]
        at == src_from[k][2]
    IN  IF rec.type = "legistar_legislation"
        THEN str_strip(Pages[web[legistar_search_url(rec.city)]].rows[at].title)
        ELSE LET block == news_blocks(Pages[web[news_listing_url(rec.source)]])[at]
             IN  str_strip(block[title_elem(block)].text)

\* the sentence claim_from names for claim k
SentenceOf(k) ==
    LET text == PageText[web[report.sources[claim_from[k][1]].url]]
    IN  str_strip(re_split(text)[claim_from[k][2]])

\* C5: the report's sources are in discovery order (sanjose, santaclara, svp,
\* sjce, each group in listing order) and its claims are in the order of their
\* source's position, then sentence order.
ReportInDiscoveryOrder ==
    pc = "done" =>
        /\ Len(src_from) = Len(report.sources)
        /\ PairsIncrease(src_from)
        /\ \A k \in 1..Len(report.sources) :
              /\ OriginOf(report.sources[k]) = src_from[k][1]
              /\ report.sources[k].title = ListedTitle(k)
        /\ Len(claim_from) = Len(report.claims)
        /\ PairsIncrease(claim_from)
        /\ \A k \in 1..Len(report.claims) :
              /\ report.claims[k].source_url = report.sources[claim_from[k][1]].url
              /\ report.claims[k].text = SentenceOf(k)

\* records of three origins and claims of two sources, one with several sentences
OrderWitness ==
    /\ pc = "done"
    /\ Cardinality({src_from[k][1] : k \in 1..Len(src_from)}) >= 3
    /\ Cardinality({claim_from[k][1] : k \in 1..Len(claim_from)}) >= 2
    /\ \E a, b \in 1..Len(claim_from) : a # b /\ claim_from[a][1] = claim_from[b][1]

\* C6: every record's url is absent or absolute.
EveryUrlAbsentOrAbsolute ==
    \A k \in 1..Len(all_sources) :
        all_sources[k].url = None \/ HasHttpScheme(all_sources[k].url)

\* claims without their timestamp
WithoutTime(claims) ==
    [k \in 1..Len(claims) |->
        [text |-> claims[k].text,
         source_url |-> claims[k].source_url,
         source_title |-> claims[k].source_title]]

\* C7: with every URL answering as before, a second run returns the same
\* sources and, timestamps aside, the same claims.
SecondRunReturnsTheSame ==
    (pc = "done" /\ run >= 2) =>
        /\ report.sources = prev_report.sources
        /\ WithoutTime(report.claims) = WithoutTime(prev_report.claims)

\* a second run that returned sources and claims, the claims stamped anew
SecondRunWitness ==
    /\ pc = "done"
    /\ run = 2
    /\ Len(report.sources) >= 3
    /\ Len(report.claims) >= 2
    /\ report.claims # prev_report.claims

\* the title by preference: the first h3, else the first h2, else the first link
PreferredTitle(block) ==
    LET h3 == find_tag(block, {"h3"})
        h2 == find_tag(block, {"h2"})
        a == find_tag(block, {"a"})
    IN  str_strip(block[IF h3 # 0 THEN h3 ELSE IF h2 # 0 THEN h2 ELSE a].text)

\* the block each news record of the report came from
BlockOf(k) ==
    news_blocks(Pages[web[news_listing_url(all_sources[k].source)]])[src_from[k][2]]

\* C8: a news record's title is the text of its block's h3 if it has one,
\* else of its h2, else of its first link, wherever these stand in the block.
NewsTitleByPreference ==
    \A k \in 1..Len(all_sources) :
        all_sources[k].type = "news" =>
            all_sources[k].title = PreferredTitle(BlockOf(k))

\* the URLs of the records that have one, in order
RECURSIVE PresentUrls(_, _)
PresentUrls(sources, n) ==
    IF n = 0 THEN <<>>
    ELSE IF sources[n].url = None THEN PresentUrls(sources, n - 1)
         ELSE Append(PresentUrls(sources, n - 1), sources[n].url)

\* C9: the extraction stage fetches once for each record with a url, in
\* sources order, after the four listing fetches, and never for a record
\* without a url; such a record yields no claim; a run makes
\* 4 + (records with a url) fetches.
FetchesAreListingsThenSources ==
    pc \in {"extract", "done"} =>
        LET handled == IF pc = "done" THEN Len(all_sources) ELSE idx - 1
            listings == << legistar_search_url("sanjose"), legistar_search_url("santaclara"),
                           news_listing_url("svp"), news_listing_url("sjce") >>
        IN  /\ fetches = listings \o PresentUrls(all_sources, handled)
            /\ pc = "done" =>
                  Len(fetches) = 4 + Cardinality({k \in 1..Len(all_sources) :
                                                     all_sources[k].url # None})
            /\ \A k \in 1..Len(claim_from) : all_sources[claim_from[k][1]].url # None

\* a finished run over records with and without a url
FetchesWitness ==
    /\ pc = "done"
    /\ Len(fetches) >= 7
    /\ \E k \in 1..Len(all_sources) : all_sources[k].url = None
    /\ all_sources[Len(all_sources)].url = None

\* the blocks of a listing that have a title element and a keyword
RelevantBlocks(blocks) ==
    {i \in 1..Len(blocks) :
        /\ \E e \in 1..Len(blocks[i]) : blocks[i][e].tag \in {"h3", "h2", "a"}
        /\ \E w \in 1..Len(keywords) :
              str_contains(str_lower(block_text(blocks[i])), keywords[w])}

\* the positions in all_sources of the records of one origin
RecordsOf(origin) == {k \in 1..Len(all_sources) : src_from[k][1] = origin}

\* C10: every news record comes from a block whose lowercased text has a
\* keyword, every block with a title element and a keyword gives exactly one
\* record, and register rows are not filtered by keyword.
NewsRecordsAreTheRelevantBlocks ==
    pc \in {"extract", "done"} =>
        /\ \A n \in 1..Len(NewsSources) :
              LET served == web[news_listing_url(NewsSources[n])]
                  blocks == IF served = "failure" THEN <<>> ELSE news_blocks(Pages[served])
              IN  {src_from[k][2] : k \in RecordsOf(Len(Cities) + n)} = RelevantBlocks(blocks)
                  /\ Cardinality(RecordsOf(Len(Cities) + n)) = Cardinality(RelevantBlocks(blocks))
        /\ \A c \in 1..Len(Cities) :
              LET served == web[legistar_search_url(Cities[c])]
                  rows == IF served = "failure" THEN <<>> ELSE Pages[served].rows
              IN  Cardinality(RecordsOf(c)) =
                      Cardinality({i \in 1..Len(rows) : rows[i].has_title})

\* a listing with relevant and irrelevant blocks, and register records
\* whose rows have no keyword
NewsFilterWitness ==
    /\ pc = "done"
    /\ web[news_listing_url("svp")] = "NewsA"
    /\ Cardinality(RecordsOf(3)) = 2
    /\ \E k \in RecordsOf(2) : ~HasKeyword(all_sources[k].title)
====
